---- MODULE Spec2Model ----
(***************************************************************************)
(* A model of fctl (src/faucet/fctl.py): the report tool that scrapes      *)
(* Prometheus endpoints, filters the samples and prints a text report.     *)
(*                                                                         *)
(* Python values are modelled as follows.                                  *)
(*   str    a sequence of one-character strings                            *)
(*   None   the empty sequence <<>>, and a value x that may be None is     *)
(*          the one-element sequence <<x>> (NoneV / Some)                  *)
(*   dict   a function whose domain is the set of its keys                 *)
(*   number a record [neg, hi, lo, half] standing for                      *)
(*          (-1)^neg * (hi * 2^24 + lo + half/2): two 24-bit limbs, so     *)
(*          that 48-bit values and values beyond them stay exact           *)
(***************************************************************************)
EXTENDS Integers, Sequences, FiniteSets, TLC

VARIABLES
    call,      \* the pending call of a library function: its arguments
    ret,       \* what that call returned or raised
    pc,        \* the driver's position
    args,      \* the namespace argparse produced from the command line
    parsed,    \* parse_args' return value
    entry,     \* which caller runs scrape_prometheus: main or get_samples
    endpoints, \* scrape_prometheus' endpoints argument
    retries,   \* scrape_prometheus' retries argument
    ep,        \* index of the endpoint being scraped (for endpoint in endpoints)
    attempt,   \* attempts made so far on that endpoint (for _ in range(retries))
    content,   \* scrape_prometheus' local content
    err,       \* scrape_prometheus' local err
    metrics,   \* scrape_prometheus' local metrics
    result,    \* what scrape_prometheus returned
    log,       \* history: every network attempt and parser call, in order
    stdout,    \* what was written to sys.stdout, in order
    stderr,    \* what was written to sys.stderr, in order
    status     \* the process exit status, None while it runs

vars == <<call, ret, pc, args, parsed, entry, endpoints, retries, ep, attempt,
          content, err, metrics, result, log, stdout, stderr, status>>

driverVars == <<pc, args, parsed, entry, endpoints, retries, ep, attempt,
                content, err, metrics, result, log, stdout, stderr, status>>

(***************************************************************************)
(* Bounds of the model.                                                    *)
(***************************************************************************)
MaxFamilies == 2     \* longest list of metric families given to the filter
MaxNames == 2        \* longest list of requested metric names
MaxEndpoints == 2    \* longest list of endpoints
MaxRetries == 3      \* largest retries argument get_samples passes

(***************************************************************************)
(* Python values.                                                          *)
(***************************************************************************)
NoneV == <<>>
Some(x) == <<x>>
IsNone(o) == Len(o) = 0
Val(o) == o[1]

Two24 == 256 * 256 * 256

Num(neg, hi, lo, half) == [neg |-> neg, hi |-> hi, lo |-> lo, half |-> half]
Zero == Num(FALSE, 0, 0, FALSE)

\* Code points, as far as the order of the characters used here goes.
CodeOrder == <<"'", "(", ")", ",", "-", ".", "/",
               "0", "1", "2", "3", "4", "5", "6", "7", "8", "9", ":",
               "[", "]", "_",
               "a", "b", "c", "d", "e", "f", "g", "h", "i", "j", "k", "l", "m",
               "n", "o", "p", "q", "r", "s", "t", "u", "v", "w", "x", "y", "z">>

Ord(c) == CHOOSE i \in DOMAIN CodeOrder : CodeOrder[i] = c

\* s < t for two str, as Python compares them
RECURSIVE StrLess(_, _)
StrLess(s, t) ==
    IF Len(t) = 0 THEN FALSE
    ELSE IF Len(s) = 0 THEN TRUE
    ELSE IF Head(s) # Head(t) THEN Ord(Head(s)) < Ord(Head(t))
    ELSE StrLess(Tail(s), Tail(t))

\* sep.join(parts), halving the list so that long lists nest only a little
RECURSIVE Join(_, _)
Join(sep, parts) ==
    IF Len(parts) = 0 THEN <<>>
    ELSE IF Len(parts) = 1 THEN parts[1]
    ELSE LET h == Len(parts) \div 2
         IN Join(sep, SubSeq(parts, 1, h)) \o sep
                \o Join(sep, SubSeq(parts, h + 1, Len(parts)))

\* s.split(c) for a one-character separator c: the pieces between the
\* places where c stands
Split(s, c) ==
    LET at == {i \in DOMAIN s : s[i] = c}
        edge(k) == IF k = 0 THEN 0
                   ELSE IF k = Cardinality(at) + 1 THEN Len(s) + 1
                   ELSE CHOOSE i \in at : Cardinality({j \in at : j < i}) = k - 1
    IN [k \in 1..(Cardinality(at) + 1) |->
            SubSeq(s, edge(k - 1) + 1, edge(k) - 1)]

\* s.startswith(p)
StartsWith(s, p) == Len(s) >= Len(p) /\ SubSeq(s, 1, Len(p)) = p

\* dict.items() as a set
Items(d) == {<<k, d[k]>> : k \in DOMAIN d}

\* sorted(keys)
RECURSIVE SortedKeys(_)
SortedKeys(ks) ==
    IF ks = {} THEN <<>>
    ELSE LET m == CHOOSE k \in ks : \A o \in ks \ {k} : StrLess(k, o)
         IN <<m>> \o SortedKeys(ks \ {m})

HexDigits == <<"0", "1", "2", "3", "4", "5", "6", "7", "8", "9",
               "a", "b", "c", "d", "e", "f">>

\* str(n) for a natural number n
RECURSIVE NatStr(_)
NatStr(n) ==
    LET d == HexDigits[(n % 10) + 1]
    IN IF n < 10 THEN <<d>> ELSE Append(NatStr(n \div 10), d)

\* str(x) for a float x below 2^24 in magnitude
FloatStr(x) ==
    (IF x.neg THEN <<"-">> ELSE <<>>) \o NatStr(x.lo)
        \o (IF x.half THEN <<".", "5">> ELSE <<".", "0">>)

\* A Python value: a number, a str, a list of str, or None.
Blank == [t |-> "none", num |-> Zero, str |-> <<>>, list |-> <<>>]
VNum(x) == [Blank EXCEPT !.t = "num", !.num = x]
VStr(s) == [Blank EXCEPT !.t = "str", !.str = s]
VList(l) == [Blank EXCEPT !.t = "list", !.list = l]

\* str(v)
PyStr(v) == IF v.t = "str" THEN v.str ELSE FloatStr(v.num)

\* How a call ends: it returns val (exc = "") or raises exc.
Return(v) == [exc |-> "", val |-> v]
Raise(e) == [exc |-> e, val |-> Blank]

(***************************************************************************)
(* The names, label keys and label values of the model.                    *)
(***************************************************************************)
N_learned_macs == <<"l", "e", "a", "r", "n", "e", "d", "_", "m", "a", "c", "s">>
N_dp_status == <<"d", "p", "_", "s", "t", "a", "t", "u", "s">>
N_port_status == <<"p", "o", "r", "t", "_", "s", "t", "a", "t", "u", "s">>
K_dp_id == <<"d", "p", "_", "i", "d">>
K_port == <<"p", "o", "r", "t">>

Sample(labels, value) == [labels |-> labels, value |-> value]
Family(name, samples) == [name |-> name, samples |-> samples]

(***************************************************************************)
(* decode_value                                                            *)
(***************************************************************************)
\* int(value): truncation towards zero
PyInt(x) == Num(x.neg /\ (x.hi # 0 \/ x.lo # 0), x.hi, x.lo, FALSE)

\* n.to_bytes(6, byteorder='big') raises OverflowError unless 0 <= n < 2^48
ToBytesFits(n) == ~n.neg /\ n.hi < Two24

\* byteorder='little' in place of 'big'
ToBytes6Little(n) == <<n.lo % 256, (n.lo \div 256) % 256, n.lo \div 65536,
                       n.hi % 256, (n.hi \div 256) % 256, n.hi \div 65536>>

ToBytes6(n) == <<n.hi \div 65536, (n.hi \div 256) % 256, n.hi % 256,
                 n.lo \div 65536, (n.lo \div 256) % 256, n.lo % 256>>

\* format(octet, '02x')
Format02x(octet) == <<HexDigits[(octet \div 16) + 1], HexDigits[(octet % 16) + 1]>>

decode_value(metric_name, value) ==
    IF metric_name = Some(N_learned_macs)
    THEN LET n == PyInt(value)
         IN IF ~ToBytesFits(n) THEN Raise("OverflowError")
            ELSE Return(VStr(Join(<<":">>,
                     [i \in 1..6 |-> Format02x(ToBytes6(n)[i])])))
    ELSE Return(VNum(value))

(***************************************************************************)
(* _get_samples_from_metrics                                               *)
(***************************************************************************)
\* set(label_matches.items()).issubset(set(labels.items()))
LabelsMatch(label_matches, labels) ==
    IsNone(label_matches) \/ Items(Val(label_matches)) \subseteq Items(labels)

\* value == 0 in place of int(value) == 0
SkipZeroNoTrunc(nonzero_only, value) ==
    nonzero_only /\ value.hi = 0 /\ value.lo = 0 /\ ~value.half

\* nonzero_only and int(value) == 0
SkipZero(nonzero_only, value) ==
    nonzero_only /\ PyInt(value).hi = 0 /\ PyInt(value).lo = 0

\* for sample in metric.samples
RECURSIVE SamplesLoop(_, _, _)
SamplesLoop(samples, label_matches, nonzero_only) ==
    IF Len(samples) = 0 THEN <<>>
    ELSE LET sample == Head(samples)
             keep == /\ LabelsMatch(label_matches, sample.labels)
                     /\ ~SkipZero(nonzero_only, sample.value)
         IN (IF keep THEN <<sample>> ELSE <<>>)
                \o SamplesLoop(Tail(samples), label_matches, nonzero_only)

\* metric_name is None or metric.name == metric_name
NameMatches(metric_name, metric) ==
    IsNone(metric_name) \/ metric.name = Val(metric_name)

\* for metric in metrics
RECURSIVE get_samples_from_metrics(_, _, _, _)
get_samples_from_metrics(ms, metric_name, label_matches, nonzero_only) ==
    IF Len(ms) = 0 THEN <<>>
    ELSE (IF NameMatches(metric_name, Head(ms))
          THEN SamplesLoop(Head(ms).samples, label_matches, nonzero_only)
          ELSE <<>>)
            \o get_samples_from_metrics(Tail(ms), metric_name, label_matches,
                                        nonzero_only)

(***************************************************************************)
(* report_label_match_metrics                                              *)
(***************************************************************************)
Delim == <<"\t">>
Newline == <<"\n">>

\* repr of a str without quotes or escapes in it
StrRepr(s) == <<"'">> \o s \o <<"'">>

\* [(key, val) for key, val in sorted(labels.items())
\*  if not display_labels or key in display_labels]
SortedLabels(labels, display_labels) ==
    LET shown == {k \in DOMAIN labels :
                     \/ IsNone(display_labels)
                     \/ Len(Val(display_labels)) = 0
                     \/ \E i \in DOMAIN Val(display_labels) :
                            Val(display_labels)[i] = k}
    IN SortedKeys(shown)

\* str(sorted_labels)
LabelListStr(labels, keys) ==
    <<"[">> \o Join(<<",", " ">>,
                    [i \in DOMAIN keys |->
                        <<"(">> \o StrRepr(keys[i]) \o <<",", " ">>
                            \o StrRepr(labels[keys[i]]) \o <<")">>])
        \o <<"]">>

\* '\n'.join(report_output), of a list of str or of the characters of a str
JoinOutput(report_output) ==
    IF report_output.t = "list"
    THEN VStr(Join(Newline, report_output.list))
    ELSE VStr(Join(Newline, [i \in DOMAIN report_output.str |->
                                <<report_output.str[i]>>]))

\* One sample of the inner loop: the new report_output, or the exception.
\* decode_value runs first, then the lookup of report_output.append, then
\* delim.join, which takes only str.
ReportSample(report_output, metric_name, sample, display_labels) ==
    LET value == decode_value(metric_name, sample.value)
        keys == SortedLabels(sample.labels, display_labels)
    IN IF value.exc # "" THEN value
       ELSE IF report_output.t # "list" THEN Raise("AttributeError")
       ELSE IF IsNone(metric_name) THEN Raise("TypeError")
       ELSE Return(VList(Append(report_output.list,
                Join(Delim, <<Val(metric_name),
                              LabelListStr(sample.labels, keys),
                              PyStr(value.val)>>))))

\* for sample in _get_samples_from_metrics(...)
RECURSIVE ReportSamples(_, _, _, _)
ReportSamples(report_output, metric_name, samples, display_labels) ==
    IF Len(samples) = 0 THEN Return(report_output)
    ELSE LET one == ReportSample(report_output, metric_name, Head(samples),
                                 display_labels)
         IN IF one.exc # "" THEN one
            ELSE ReportSamples(one.val, metric_name, Tail(samples),
                               display_labels)

\* for metric_name in report_metrics, the join at the end of each round
RECURSIVE ReportNames(_, _, _, _, _, _)
ReportNames(report_output, names, ms, display_labels, nonzero_only, label_matches) ==
    IF Len(names) = 0 THEN Return(report_output)
    ELSE LET body == ReportSamples(report_output, Head(names),
                        get_samples_from_metrics(ms, Head(names), label_matches,
                                                 nonzero_only),
                        display_labels)
         IN IF body.exc # "" THEN body
            ELSE ReportNames(JoinOutput(body.val), Tail(names), ms,
                             display_labels, nonzero_only, label_matches)

\* report_metrics is None, or a list of names
report_label_match_metrics(report_metrics, ms, display_labels, nonzero_only, label_matches) ==
    ReportNames(VList(<<>>),
                IF IsNone(report_metrics) THEN <<NoneV>>
                ELSE [i \in DOMAIN Val(report_metrics) |->
                         Some(Val(report_metrics)[i])],
                ms, display_labels, nonzero_only, label_matches)

(***************************************************************************)
(* The inputs the library functions are called with.                       *)
(***************************************************************************)
SeqsUpTo(S, n) == UNION {[1..k -> S] : k \in 0..n}

V1 == <<"1">>
V2 == <<"2">>
V3 == <<"3">>

L_dp1 == K_dp_id :> V1
L_dp2 == K_dp_id :> V2
L_dp1_port3 == (K_dp_id :> V1) @@ (K_port :> V3)
L_dp2_port3 == (K_dp_id :> V2) @@ (K_port :> V3)
L_none == [k \in {} |-> V1]

\* 0xB827EB608918, the address of the usage text, as two limbs
MacHi == 184 * 65536 + 39 * 256 + 235
MacLo == 96 * 65536 + 137 * 256 + 24

FamilyPool ==
    { Family(N_dp_status,
             << Sample(L_dp2_port3, Num(FALSE, 0, 2, FALSE)),
                Sample(L_dp1, Zero),
                Sample(L_dp1_port3, Num(FALSE, 0, 0, TRUE)),
                Sample(L_dp1, Num(FALSE, 0, 1, FALSE)),
                Sample(L_dp2, Num(TRUE, 0, 1, TRUE)) >>),
      Family(N_learned_macs,
             << Sample(L_dp1_port3, Num(FALSE, MacHi, MacLo, FALSE)),
                Sample(L_dp2, Num(TRUE, 0, 0, TRUE)) >>),
      Family(N_dp_status, << Sample(L_dp1, Num(FALSE, 0, 3, FALSE)) >>),
      Family(N_port_status, << Sample(L_none, Num(FALSE, 0, 1, FALSE)) >>),
      Family(N_learned_macs, << Sample(L_dp1, Num(FALSE, Two24, 0, FALSE)) >>) }

NamePool == {N_dp_status, N_learned_macs, N_port_status}

LabelMatchPool == {NoneV, Some(L_none), Some(L_dp1), Some(L_dp2),
                   Some(L_dp1_port3)}

DisplayPool == {NoneV, Some(<<K_dp_id>>), Some(<<K_port, K_dp_id>>)}

DecodeValues == {Num(neg, hi, lo, half) :
                    neg \in BOOLEAN,
                    hi \in {0, 1, MacHi, Two24 - 1, Two24, Two24 + 1},
                    lo \in {0, 1, 255, 256, MacLo, Two24 - 1},
                    half \in BOOLEAN}

\* The driver at rest, while a library function is called on its own.
DriverIdle ==
    /\ pc = "idle"
    /\ args = NoneV
    /\ parsed = NoneV
    /\ entry = "none"
    /\ endpoints = <<>>
    /\ retries = 0
    /\ ep = 0
    /\ attempt = 0
    /\ content = NoneV
    /\ err = NoneV
    /\ metrics = <<>>
    /\ result = NoneV
    /\ log = <<>>
    /\ stdout = <<>>
    /\ stderr = <<>>
    /\ status = NoneV

(***************************************************************************)
(* decode_value called on its own.                                         *)
(***************************************************************************)
InitDecode ==
    /\ call \in [metric_name : {Some(N_learned_macs), Some(N_dp_status), NoneV},
                 value : DecodeValues]
    /\ ret = NoneV
    /\ DriverIdle

CallDecode ==
    /\ IsNone(ret)
    /\ ret' = Some(decode_value(call.metric_name, call.value))
    /\ UNCHANGED <<call, driverVars>>

SpecDecode == InitDecode /\ [][CallDecode]_vars

(***************************************************************************)
(* _get_samples_from_metrics called on its own.                            *)
(***************************************************************************)
InitFilter ==
    /\ call \in [metrics : SeqsUpTo(FamilyPool, MaxFamilies),
                 metric_name : {NoneV} \cup {Some(n) : n \in NamePool},
                 label_matches : LabelMatchPool,
                 nonzero_only : BOOLEAN]
    /\ ret = NoneV
    /\ DriverIdle

CallFilter ==
    /\ IsNone(ret)
    /\ ret' = Some(get_samples_from_metrics(call.metrics, call.metric_name,
                                            call.label_matches,
                                            call.nonzero_only))
    /\ UNCHANGED <<call, driverVars>>

SpecFilter == InitFilter /\ [][CallFilter]_vars

(***************************************************************************)
(* report_label_match_metrics called on its own.                           *)
(***************************************************************************)
InitReport ==
    /\ call \in [report_metrics : {NoneV} \cup
                                  {Some(l) : l \in SeqsUpTo(NamePool, MaxNames)},
                 metrics : SeqsUpTo(FamilyPool, MaxFamilies),
                 display_labels : DisplayPool,
                 nonzero_only : BOOLEAN,
                 label_matches : {NoneV, Some(L_dp1)}]
    /\ ret = NoneV
    /\ DriverIdle

CallReport ==
    /\ IsNone(ret)
    /\ ret' = Some(report_label_match_metrics(call.report_metrics, call.metrics,
                                              call.display_labels,
                                              call.nonzero_only,
                                              call.label_matches))
    /\ UNCHANGED <<call, driverVars>>

SpecReport == InitReport /\ [][CallReport]_vars

(***************************************************************************)
(* The driver: parse_args, scrape_prometheus, main and get_samples.        *)
(***************************************************************************)
DefaultRetries == 3

\* The default of scrape_prometheus' err_output_file, which neither main nor
\* get_samples overrides.
ErrOutputFile == "stdout"

E_http == <<"h", "t", "t", "p", ":", "/", "/", "a">>
E_file == <<"f", "i", "l", "e", ":", "/", "/", "/", "m">>
EndpointPool == {E_http, E_file}

\* What an endpoint may serve: two exposition texts and one the parser rejects.
Texts == {"T1", "T2", "Tbad"}

\* An exception object: its type, and the endpoint and attempt that raised it.
Err(type, e, n) == [type |-> type, ep |-> e, n |-> n]
NoErr == Err("", 0, 0)

\* One write to a stream.
Entry(kind, e, v) == [kind |-> kind, err |-> e, val |-> v]

\* if args.x: neither None nor the empty str
Truthy(o) == ~IsNone(o) /\ Len(Val(o)) > 0

\* for label_value in args.labels.split(','):
\*     label, value = label_value.split(':'); label_matches[label] = value
RECURSIVE LabelLoop(_, _)
LabelLoop(items, acc) ==
    IF Len(items) = 0 THEN Return(acc)
    ELSE LET parts == Split(Head(items), ":")
         IN IF Len(parts) # 2 THEN Raise("ValueError")
            ELSE LabelLoop(Tail(items),
                           [k \in DOMAIN acc \cup {parts[1]} |->
                               IF k = parts[1] THEN parts[2] ELSE acc[k]])

\* parse_args from the namespace on: the tuple it returns, or the exception
\* its try block raises
parse_args(a) ==
    LET labels == IF Truthy(a.labels)
                  THEN LabelLoop(Split(Val(a.labels), ","), L_none)
                  ELSE Return(L_none)
    IN IF labels.exc # "" THEN labels
       ELSE Return(
              [endpoints |-> IF Truthy(a.endpoints)
                             THEN Split(Val(a.endpoints), ",") ELSE <<>>,
               report_metrics |-> IF Truthy(a.metrics)
                                  THEN Split(Val(a.metrics), ",") ELSE <<>>,
               label_matches |-> IF Truthy(a.labels) THEN Some(labels.val)
                                 ELSE NoneV,
               nonzero_only |-> a.nonzero,
               display_labels |-> IF Truthy(a.display_labels)
                                  THEN Some(Split(Val(a.display_labels), ","))
                                  ELSE NoneV])

\* except (KeyError, IndexError)
ParseArgsCatches(exc) == exc \in {"KeyError", "IndexError"}

\* endpoint.startswith('http')
IsHttp(endpoint) == StartsWith(endpoint, <<"h", "t", "t", "p">>)

\* How one attempt may end. requests.get: an OK response, another status, a
\* ConnectionError, a ValueError (the body is no UTF-8), or an exception of
\* another type. urlopen: the text, a ValueError, or another exception.
Outcomes(endpoint) ==
    IF IsHttp(endpoint)
    THEN {"ok", "status", "ConnectionError", "ValueError", "other"}
    ELSE {"ok", "ValueError", "other"}

\* except (requests.exceptions.ConnectionError, ValueError)
Caught(o) == o \in {"ConnectionError", "ValueError"}

\* range(retries + 1) in place of range(retries)
RangeHasNextInclusive(k, n) == k <= n

\* for _ in range(retries): whether a round follows k rounds
RangeHasNext(k, n) == k < n

\* parser.text_string_to_metric_families(content), consumed by extend
ParseText(c) ==
    IF IsNone(c) THEN Return(<<>>)
    ELSE IF Val(c) = "T1"
    THEN Return(<< Family(N_dp_status,
                          << Sample(L_dp1, Num(FALSE, 0, 1, FALSE)),
                             Sample(L_dp2, Zero) >>) >>)
    ELSE IF Val(c) = "T2"
    THEN Return(<< Family(N_learned_macs,
                          << Sample(L_dp1_port3,
                                    Num(FALSE, MacHi, MacLo, FALSE)) >>) >>)
    ELSE Raise("ValueError")

\* The parser's error passed over, the scrape going on to the next endpoint
EndpointVerdictSwallow(e, er, c) ==
    IF ~IsNone(er)
    THEN [abort |-> TRUE, out |-> "", diag |-> Val(er), families |-> <<>>]
    ELSE [abort |-> FALSE, out |-> IF ParseText(c).exc # "" THEN ParseText(c).exc ELSE "ok",
          diag |-> NoErr,
          families |-> IF ParseText(c).exc # "" THEN <<>> ELSE ParseText(c).val]

\* What scrape_prometheus does with an endpoint after its attempts: write err
\* and return None, or parse the content and go on, or write the parser's
\* error and return None. out is how the parser's call ended ("" when it was
\* not called).
EndpointVerdict(e, er, c) ==
    IF ~IsNone(er)
    THEN [abort |-> TRUE, out |-> "", diag |-> Val(er), families |-> <<>>]
    ELSE LET p == ParseText(c)
         IN IF p.exc # ""
            THEN [abort |-> TRUE, out |-> p.exc,
                  diag |-> Err("ParseError", e, 0), families |-> <<>>]
            ELSE [abort |-> FALSE, out |-> "ok", diag |-> NoErr,
                  families |-> p.val]

\* The start of the round for endpoint e with the metrics m gathered so far,
\* or the return of m after the last endpoint.
StartEndpoint(e, eps, r, m) ==
    /\ ep' = e
    /\ metrics' = m
    /\ content' = NoneV
    /\ err' = NoneV
    /\ attempt' = 0
    /\ IF e > Len(eps)
       THEN result' = Some(m) /\ pc' = "returned"
       ELSE result' = NoneV
            /\ pc' = IF RangeHasNext(0, r) THEN "fetch" ELSE "check"

\* An exception nobody catches: main's process prints the traceback and exits
\* with status 1; get_samples' caller gets the exception.
Uncaught(exc) ==
    /\ pc' = "exited"
    /\ IF entry = "main"
       THEN /\ stderr' = Append(stderr, Entry("traceback", Err(exc, 0, 0), Blank))
            /\ status' = Some(1)
            /\ ret' = ret
       ELSE /\ ret' = Some(Raise(exc))
            /\ UNCHANGED <<stderr, status>>

EndpointArgs ==
    {NoneV} \cup {Some(Join(<<",">>, l)) :
                     l \in SeqsUpTo(EndpointPool, MaxEndpoints)}

MetricsArgs ==
    {NoneV, Some(N_dp_status), Some(N_dp_status \o <<",">> \o N_learned_macs)}

A_dp1 == K_dp_id \o <<":">> \o V1

\* --labels, --nonzero and --display-labels as they are given together
Profiles ==
    { <<NoneV, FALSE, NoneV>>,
      <<Some(A_dp1), TRUE, NoneV>>,
      <<NoneV, TRUE, Some(K_dp_id)>>,
      <<Some(K_dp_id), FALSE, NoneV>>,
      <<Some(A_dp1 \o <<":">> \o V2), FALSE, NoneV>>,
      <<Some(A_dp1 \o <<",">> \o K_port), TRUE, NoneV>> }

Namespace(ok, e, m, p) ==
    [ok |-> ok, endpoints |-> e, metrics |-> m, labels |-> p[1],
     nonzero |-> p[2], display_labels |-> p[3]]

\* What arg_parser.parse_args leaves: a namespace, or (ok = FALSE) its own
\* usage message on stderr and SystemExit(2).
ArgsSet ==
    {Namespace(TRUE, e, m, p) : e \in EndpointArgs, m \in MetricsArgs,
                                p \in Profiles}
        \cup {Namespace(FALSE, NoneV, NoneV, <<NoneV, FALSE, NoneV>>)}

ScrapeAtRest ==
    /\ parsed = NoneV
    /\ endpoints = <<>>
    /\ retries = 0
    /\ ep = 0
    /\ attempt = 0
    /\ content = NoneV
    /\ err = NoneV
    /\ metrics = <<>>
    /\ result = NoneV
    /\ log = <<>>
    /\ stdout = <<>>
    /\ stderr = <<>>
    /\ status = NoneV
    /\ ret = NoneV

InitMain ==
    /\ entry = "main"
    /\ pc = "parse_args"
    /\ args \in ArgsSet
    /\ call = NoneV
    /\ ScrapeAtRest

InitGetSamples ==
    /\ entry = "get_samples"
    /\ pc = "get_samples"
    /\ args = NoneV
    /\ call \in [endpoints : SeqsUpTo(EndpointPool, MaxEndpoints),
                 metric_name : {Some(N_dp_status)},
                 label_matches : {NoneV},
                 nonzero_only : {TRUE},
                 retries : 1..MaxRetries]
    /\ ScrapeAtRest

Init == InitMain \/ InitGetSamples

\* main up to its call of scrape_prometheus: parse_args, and the first lines
\* of scrape_prometheus
ParseArgs ==
    /\ pc = "parse_args"
    /\ UNCHANGED <<call, args, entry, log, stdout>>
    /\ IF ~args.ok
       THEN /\ stderr' = Append(stderr, Entry("usage", NoErr, Blank))
            /\ status' = Some(2)
            /\ pc' = "exited"
            /\ UNCHANGED <<ret, parsed, endpoints, retries, ep, attempt,
                           content, err, metrics, result>>
       ELSE LET r == parse_args(args)
            IN IF r.exc # "" /\ ParseArgsCatches(r.exc)
               THEN /\ stdout' = Append(stdout, Entry("usage", NoErr, Blank))
                    /\ status' = Some(255)
                    /\ pc' = "exited"
                    /\ UNCHANGED <<ret, stderr, parsed, endpoints, retries, ep,
                                   attempt, content, err, metrics, result>>
               ELSE IF r.exc # ""
               THEN /\ Uncaught(r.exc)
                    /\ UNCHANGED <<parsed, endpoints, retries, ep, attempt,
                                   content, err, metrics, result>>
               ELSE /\ parsed' = Some(r.val)
                    /\ endpoints' = r.val.endpoints
                    /\ retries' = DefaultRetries
                    /\ StartEndpoint(1, r.val.endpoints, DefaultRetries, <<>>)
                    /\ UNCHANGED <<ret, stderr, status>>

\* get_samples up to its call of scrape_prometheus
GetSamplesCall ==
    /\ pc = "get_samples"
    /\ endpoints' = call.endpoints
    /\ retries' = call.retries
    /\ StartEndpoint(1, call.endpoints, call.retries, <<>>)
    /\ UNCHANGED <<call, ret, args, parsed, entry, log, stdout, stderr, status>>

\* One round of the retry loop
Attempt ==
    /\ pc = "fetch"
    /\ \E o \in Outcomes(endpoints[ep]), t \in Texts :
        /\ (o # "ok") => (t = "T1")
        /\ log' = Append(log, [op |-> "get", ep |-> ep, n |-> attempt + 1,
                               out |-> o])
        /\ attempt' = attempt + 1
        /\ content' = IF o = "ok" THEN Some(t) ELSE content
        /\ err' = IF Caught(o) THEN Some(Err(o, ep, attempt + 1)) ELSE err
        /\ IF o = "other"
           THEN Uncaught("other")
           ELSE /\ pc' = IF o # "ok" /\ RangeHasNext(attempt + 1, retries)
                         THEN "fetch" ELSE "check"
                /\ UNCHANGED <<ret, stderr, status>>
    /\ UNCHANGED <<call, args, parsed, entry, endpoints, retries, ep, metrics,
                   result, stdout>>

\* After the retry loop: the check of err, the parse, the next endpoint
FinishEndpoint ==
    /\ pc = "check"
    /\ LET v == EndpointVerdict(ep, err, content)
       IN /\ log' = IF v.out # ""
                    THEN Append(log, [op |-> "parse", ep |-> ep, n |-> 0,
                                      out |-> v.out])
                    ELSE log
          /\ IF v.abort
             THEN /\ result' = NoneV
                  /\ pc' = "returned"
                  /\ stdout' = IF ErrOutputFile = "stdout"
                               THEN Append(stdout, Entry("diag", v.diag, Blank))
                               ELSE stdout
                  /\ stderr' = IF ErrOutputFile = "stderr"
                               THEN Append(stderr, Entry("diag", v.diag, Blank))
                               ELSE stderr
                  /\ UNCHANGED <<ep, attempt, content, err, metrics>>
             ELSE /\ StartEndpoint(ep + 1, endpoints, retries,
                                   metrics \o v.families)
                  /\ UNCHANGED <<stdout, stderr>>
    /\ UNCHANGED <<call, ret, args, parsed, entry, endpoints, retries, status>>

\* main after scrape_prometheus returned
MainFinish ==
    /\ pc = "returned"
    /\ entry = "main"
    /\ pc' = "exited"
    /\ IF IsNone(result)
       THEN status' = Some(1) /\ UNCHANGED <<stdout, stderr>>
       ELSE LET q == Val(parsed)
                r == report_label_match_metrics(Some(q.report_metrics),
                        Val(result), q.display_labels, q.nonzero_only,
                        q.label_matches)
            IN IF r.exc # ""
               THEN /\ stderr' = Append(stderr,
                                    Entry("traceback", Err(r.exc, 0, 0), Blank))
                    /\ status' = Some(1)
                    /\ stdout' = stdout
               ELSE /\ stdout' = Append(stdout, Entry("report", NoErr, r.val))
                    /\ status' = Some(0)
                    /\ stderr' = stderr
    /\ UNCHANGED <<call, ret, args, parsed, entry, endpoints, retries, ep,
                   attempt, content, err, metrics, result, log>>

\* get_samples after scrape_prometheus returned
GetSamplesFinish ==
    /\ pc = "returned"
    /\ entry = "get_samples"
    /\ pc' = "exited"
    /\ ret' = IF IsNone(result) THEN Some(Return(NoneV))
              ELSE Some(Return(Some(get_samples_from_metrics(
                        Val(result), call.metric_name, call.label_matches,
                        call.nonzero_only))))
    /\ UNCHANGED <<call, args, parsed, entry, endpoints, retries, ep, attempt,
                   content, err, metrics, result, log, stdout, stderr, status>>

Next ==
    \/ ParseArgs
    \/ GetSamplesCall
    \/ Attempt
    \/ FinishEndpoint
    \/ MainFinish
    \/ GetSamplesFinish

Spec == Init /\ [][Next]_vars

(***************************************************************************)
(* The claims.                                                             *)
(***************************************************************************)
\* The stream scrape_prometheus writes its errors to
ErrStream == IF ErrOutputFile = "stdout" THEN stdout ELSE stderr

\* The places of the log where endpoint i was attempted, and where the
\* attempt ended in an exception the retry loop catches
Gets(i) == {p \in DOMAIN log : log[p].op = "get" /\ log[p].ep = i}
FailedGets(i) ==
    {p \in Gets(i) : log[p].out \in {"ConnectionError", "ValueError"}}

\* Every attempt the retry count allows was made on endpoint i, and failed
Exhausted(i) == retries >= 1 /\ Cardinality(FailedGets(i)) = retries

LastOf(seq) == seq[Len(seq)]

\* Endpoint i gave a text and the parser took it
Fetched(i) == \E p \in Gets(i) : log[p].out = "ok"
ParsedOk(i) ==
    \E p \in DOMAIN log : log[p] = [op |-> "parse", ep |-> i, n |-> 0, out |-> "ok"]
Complete == \A i \in 1..Len(endpoints) : Fetched(i) /\ ParsedOk(i)

Reports(stream) == {p \in DOMAIN stream : stream[p].kind = "report"}

\* C1: when scrape_prometheus returns None over a transport failure, every
\* one of the R attempts on some endpoint failed; and an attempt that
\* succeeds ends the retrying for its endpoint (the parser comes next).
C1_SuccessEndsRetrying ==
    /\ \A p \in DOMAIN log :
          (log[p].op = "get" /\ log[p].out = "ok" /\ p < Len(log))
              => (log[p + 1].op = "parse" /\ log[p + 1].ep = log[p].ep)
    /\ (/\ pc = "returned"
        /\ IsNone(result)
        /\ LastOf(ErrStream).err.type \in {"ConnectionError", "ValueError"})
          => \E i \in 1..Len(endpoints) : Exhausted(i)

\* C2: an endpoint is never attempted more than R times; attempts go through
\* the endpoints in list order, one at a time; and once all R attempts on an
\* endpoint failed nothing more is attempted or parsed, scrape_prometheus
\* writes the error of the last attempt and returns None, and main prints no
\* report.
C2_RetryExhaustion ==
    /\ \A i \in 1..Len(endpoints) : Cardinality(Gets(i)) <= retries
    /\ \A p \in DOMAIN log :
          log[p].op = "get"
              => /\ log[p].n = Cardinality({q \in Gets(log[p].ep) : q <= p})
                 /\ \A q \in 1..(p - 1) : log[q].ep <= log[p].ep
    /\ \A i \in 1..Len(endpoints) :
          Exhausted(i)
              => /\ Cardinality(Gets(i)) = retries
                 /\ LastOf(log) = [op |-> "get", ep |-> i, n |-> retries,
                                   out |-> LastOf(log).out]
                 /\ pc \in {"check", "returned", "exited"}
                 /\ pc # "check"
                      => /\ IsNone(result)
                         /\ LastOf(ErrStream)
                              = Entry("diag", Err(LastOf(log).out, i, retries),
                                      Blank)
                 /\ (pc = "exited" /\ entry = "main")
                      => status = Some(1) /\ Reports(stdout) = {}

C2_Witness ==
    /\ pc = "returned"
    /\ entry = "main"
    /\ retries = DefaultRetries
    /\ Len(endpoints) = 2
    /\ Exhausted(1)
    /\ log[1].out = "ConnectionError"
    /\ log[3].out = "ValueError"

LineOf(name, sample, display_labels) ==
    Join(Delim, <<name,
                  LabelListStr(sample.labels,
                               SortedLabels(sample.labels, display_labels)),
                  PyStr(decode_value(Some(name), sample.value).val)>>)

RetainedFor(c, name) ==
    get_samples_from_metrics(c.metrics, Some(name), c.label_matches,
                             c.nonzero_only)

RECURSIVE LinesFor(_, _)
LinesFor(c, names) ==
    IF Len(names) = 0 THEN <<>>
    ELSE [i \in DOMAIN RetainedFor(c, Head(names)) |->
             LineOf(Head(names), RetainedFor(c, Head(names))[i],
                    c.display_labels)]
            \o LinesFor(c, Tail(names))

Decodable(c) ==
    \A k \in DOMAIN Val(c.report_metrics) :
        \A i \in DOMAIN RetainedFor(c, Val(c.report_metrics)[k]) :
            decode_value(Some(Val(c.report_metrics)[k]),
                         RetainedFor(c, Val(c.report_metrics)[k])[i].value).exc = ""

\* C3: for one or more requested names, report_label_match_metrics returns
\* the newline-join of one line per retained sample, name by name in request
\* order and within a name in filter order.
C3_ReportIsJoinedLines ==
    (/\ ~IsNone(ret)
     /\ ~IsNone(call.report_metrics)
     /\ Len(Val(call.report_metrics)) >= 1
     /\ Decodable(call))
        => Val(ret) = Return(VStr(Join(Newline,
                                       LinesFor(call, Val(call.report_metrics)))))

LinesOfReport(v) ==
    IF v.t = "list" THEN v.list
    ELSE IF Len(v.str) = 0 THEN <<>>
    ELSE Split(v.str, "\n")

\* C4: without --metrics, the report main prints has one line for every
\* scraped sample that passes the label and nonzero constraints.
C4_NoMetricsReportsAll ==
    (/\ entry = "main"
     /\ pc = "exited"
     /\ status = Some(0)
     /\ ~Truthy(args.metrics))
        => /\ Reports(stdout) # {}
           /\ Len(LinesOfReport(LastOf(stdout).val))
                = Len(get_samples_from_metrics(Val(result), NoneV,
                                               Val(parsed).label_matches,
                                               Val(parsed).nonzero_only))

KeptPlaces(c) ==
    {q \in UNION {{<<i, j>> : j \in DOMAIN c.metrics[i].samples} :
                     i \in DOMAIN c.metrics} :
        LET m == c.metrics[q[1]]
            x == m.samples[q[2]]
        IN /\ IsNone(c.metric_name) \/ m.name = Val(c.metric_name)
           /\ \/ IsNone(c.label_matches)
              \/ \A k \in DOMAIN Val(c.label_matches) :
                    /\ k \in DOMAIN x.labels
                    /\ x.labels[k] = Val(c.label_matches)[k]
           /\ ~c.nonzero_only \/ x.value.hi > 0 \/ x.value.lo > 0}

PlacesBefore(S, q) ==
    {r \in S : r[1] < q[1] \/ (r[1] = q[1] /\ r[2] < q[2])}

\* C5: _get_samples_from_metrics returns the samples of the name-matching
\* families that carry every pair of label_matches and, under nonzero_only,
\* have a value that is not zero once truncated, in the order of the input.
C5_FilterIsOrderedSubsequence ==
    ~IsNone(ret)
        => /\ Len(Val(ret)) = Cardinality(KeptPlaces(call))
           /\ \A q \in KeptPlaces(call) :
                 Val(ret)[Cardinality(PlacesBefore(KeptPlaces(call), q)) + 1]
                    = call.metrics[q[1]].samples[q[2]]

C5_Witness ==
    /\ ~IsNone(ret)
    /\ call.nonzero_only
    /\ call.label_matches = Some(L_dp1)
    /\ call.metric_name = Some(N_dp_status)
    /\ Len(call.metrics) = 2
    /\ Len(call.metrics[1].samples) = 5
    /\ Len(call.metrics[2].samples) = 1
    /\ Len(Val(ret)) = 2

Colons(item) == Cardinality({i \in DOMAIN item : item[i] = ":"})

Malformed(labels) ==
    /\ Truthy(labels)
    /\ \E i \in DOMAIN Split(Val(labels), ",") :
          Colons(Split(Val(labels), ",")[i]) # 1

\* C6: a --labels item without ':' or with more than one ':' makes
\* parse_args print the usage text to standard error and end the process
\* with a non-zero status, before anything is scraped or reported.
C6_BadLabelsPrintUsage ==
    (/\ entry = "main"
     /\ pc # "parse_args"
     /\ args.ok
     /\ Malformed(args.labels))
        => /\ pc = "exited"
           /\ \E p \in DOMAIN stderr : stderr[p].kind = "usage"
           /\ ~IsNone(status) /\ status # Some(0)
           /\ log = <<>>
           /\ stdout = <<>>

\* C7: in a run of main, standard output receives the report and nothing
\* else: no diagnostic of a fetch or parse error.
C7_StdoutHoldsOnlyReport ==
    entry = "main" => \A p \in DOMAIN stdout : stdout[p].kind = "report"

HexVal(c) == (CHOOSE i \in DOMAIN HexDigits : HexDigits[i] = c) - 1
IsHex(c) == \E i \in DOMAIN HexDigits : HexDigits[i] = c
OctetAt(str, k) == 16 * HexVal(str[3 * k - 2]) + HexVal(str[3 * k - 1])

SpellsBigEndian(str, v) ==
    /\ Len(str) = 17
    /\ \A k \in 1..5 : str[3 * k] = ":"
    /\ \A k \in 1..6 : IsHex(str[3 * k - 2]) /\ IsHex(str[3 * k - 1])
    /\ (OctetAt(str, 1) * 256 + OctetAt(str, 2)) * 256 + OctetAt(str, 3) = v.hi
    /\ (OctetAt(str, 4) * 256 + OctetAt(str, 5)) * 256 + OctetAt(str, 6) = v.lo

MacText == <<"b", "8", ":", "2", "7", ":", "e", "b", ":",
             "6", "0", ":", "8", "9", ":", "1", "8">>

\* C8: decode_value('learned_macs', v) gives, for an integer 0 <= v < 2^48,
\* six two-digit lowercase hex octets joined by ':' that spell v big-endian,
\* and raises for a negative v or v >= 2^48; for another name the value
\* comes back unchanged.
C8_DecodeLearnedMacs ==
    ~IsNone(ret)
        => LET v == call.value
               o == Val(ret)
               isZero == v.hi = 0 /\ v.lo = 0
           IN IF call.metric_name # Some(N_learned_macs)
              THEN o = Return(VNum(v))
              ELSE /\ (~v.half /\ (isZero \/ ~v.neg) /\ v.hi < Two24)
                        => /\ o.exc = ""
                           /\ o.val.t = "str"
                           /\ SpellsBigEndian(o.val.str, v)
                   /\ (~v.half /\ ((v.neg /\ ~isZero) \/ v.hi >= Two24))
                        => o.exc # ""
                   /\ v = Num(FALSE, MacHi, MacLo, FALSE)
                        => o = Return(VStr(MacText))

C8_Witness ==
    /\ ~IsNone(ret)
    /\ call.metric_name = Some(N_learned_macs)
    /\ call.value = Num(FALSE, MacHi, MacLo, FALSE)
    /\ Val(ret).val.str = MacText

\* C9 as claimed: the parser is called on an endpoint's text only after every
\* endpoint of the list has been fetched.
C9_ParseAfterAllFetched ==
    \A p \in DOMAIN log :
        log[p].op = "parse"
            => \A i \in 1..Len(endpoints) : \E q \in Gets(i) : q < p

\* C9 as amended: the parser is called on an endpoint's content right after
\* that endpoint's attempts and before any attempt on a later endpoint; a
\* parser error ends the scrape at once, with the parser's error written,
\* None returned and no later endpoint attempted.
C9_ParseFollowsOwnFetch ==
    /\ \A p \in DOMAIN log :
          log[p].op = "parse"
              => p > 1 /\ log[p - 1].op = "get" /\ log[p - 1].ep = log[p].ep
    /\ \A p \in DOMAIN log :
          log[p].op = "get" => \A j \in 1..(log[p].ep - 1) : ParsedOk(j)
    /\ \A p \in DOMAIN log :
          (log[p].op = "parse" /\ log[p].out = "ValueError")
              => /\ p = Len(log)
                 /\ pc \in {"returned", "exited"}
                 /\ IsNone(result)
                 /\ LastOf(ErrStream)
                      = Entry("diag", Err("ParseError", log[p].ep, 0), Blank)

C9_Witness ==
    /\ pc = "returned"
    /\ Len(endpoints) = 2
    /\ Len(log) = 2
    /\ log[1] = [op |-> "get", ep |-> 1, n |-> 1, out |-> "ok"]
    /\ log[2] = [op |-> "parse", ep |-> 1, n |-> 0, out |-> "ValueError"]
    /\ IsNone(result)
    /\ LastOf(ErrStream).err.type = "ParseError"

\* C10: scrape_prometheus returns a list, and main prints a report, only if
\* every endpoint gave a text that the parser took; otherwise main exits
\* with status 1 and prints no report.
C10_NoPartialResults ==
    /\ (pc = "returned" /\ ~IsNone(result)) => Complete
    /\ (entry = "main" /\ pc = "exited" /\ ~IsNone(parsed))
          => /\ Reports(stdout) # {} => Complete
             /\ ~Complete => (status = Some(1) /\ Reports(stdout) = {})

====
